---- MODULE Spec2Model ----
(***************************************************************************)
(* Model of the k-space reconstruction notebook (src/notebook.ipynb).      *)
(*                                                                         *)
(* The notebook is a set of cells that read and assign global names.  The  *)
(* state of the model is the notebook's namespace; Init is the namespace   *)
(* after the "open the raw data" cell; every other code cell is an action. *)
(*                                                                         *)
(* Arithmetic is exact.  A spectrum coefficient is a Gaussian integer      *)
(* <<re, im>>.  An image value is a complex number whose real and          *)
(* imaginary parts lie in Z[sqrt 3] (pairs <<a, b>> = a + b*sqrt(3)),      *)
(* divided by a scale that the array carries: den * sqrt(sq).  This ring   *)
(* holds the twiddle factors of every transform length dividing 12.        *)
(***************************************************************************)
EXTENDS Integers, Sequences, FiniteSets, TLC

\* ------------------------------------------------------------------ bounds
MaxOffset == 2
MaxHalfSide == 1

\* Axis lengths of the loaded spectrum (all divide 12, see W12).
Sizes == {1, 2, 3, 4}
Shapes == Sizes \X Sizes

Offsets == (-MaxOffset)..MaxOffset
HalfSides == 0..MaxHalfSide
\* Values written by the interference cell: amplification * (1 + 1j).
PointValues == {<<10, 10>>, <<3, 3>>}

\* -------------------------------------------------- the ring Z[sqrt 3][i]
RZero == <<0, 0>>
RAdd(p, q) == <<p[1] + q[1], p[2] + q[2]>>
RNeg(p) == <<-p[1], -p[2]>>
RMul(p, q) == <<p[1] * q[1] + 3 * p[2] * q[2], p[1] * q[2] + p[2] * q[1]>>
RScale(k, p) == <<k * p[1], k * p[2]>>

CZero == <<RZero, RZero>>
CAdd(u, v) == <<RAdd(u[1], v[1]), RAdd(u[2], v[2])>>
CMul(u, v) == <<RAdd(RMul(u[1], v[1]), RNeg(RMul(u[2], v[2]))),
                RAdd(RMul(u[1], v[2]), RMul(u[2], v[1]))>>
CConj(u) == <<u[1], RNeg(u[2])>>
CScale(k, u) == <<RScale(k, u[1]), RScale(k, u[2])>>
\* |u|^2, an element of Z[sqrt 3]
CAbs2(u) == RAdd(RMul(u[1], u[1]), RMul(u[2], u[2]))
\* a Gaussian integer as an element of the ring
Embed(g) == <<(<<g[1], 0>>), (<<g[2], 0>>)>>

RECURSIVE CSum(_)
CSum(s) == IF s = <<>> THEN CZero ELSE CAdd(Head(s), CSum(Tail(s)))

RECURSIVE RSum(_)
RSum(s) == IF s = <<>> THEN RZero ELSE RAdd(Head(s), RSum(Tail(s)))

\* 2 * exp(-2*pi*i*k/12), k = 0..11 (index k+1)
W12 == << <<(<<2, 0>>), (<<0, 0>>)>>,   <<(<<0, 1>>), (<<-1, 0>>)>>,
          <<(<<1, 0>>), (<<0, -1>>)>>,  <<(<<0, 0>>), (<<-2, 0>>)>>,
          <<(<<-1, 0>>), (<<0, -1>>)>>, <<(<<0, -1>>), (<<-1, 0>>)>>,
          <<(<<-2, 0>>), (<<0, 0>>)>>,  <<(<<0, -1>>), (<<1, 0>>)>>,
          <<(<<-1, 0>>), (<<0, 1>>)>>,  <<(<<0, 0>>), (<<2, 0>>)>>,
          <<(<<1, 0>>), (<<0, 1>>)>>,   <<(<<0, 1>>), (<<1, 0>>)>> >>

\* 2 * exp(-2*pi*i*j/n) for n dividing 12
Twiddle(n, j) == W12[(((12 \div n) * j) % 12) + 1]

\* ------------------------------------------------------------------ arrays
\* A 2D array: shape <<rows, cols>> (axis 0, axis 1) and data indexed <<r, c>>.
Idx(shape) == (0..(shape[1] - 1)) \X (0..(shape[2] - 1))

\* int(): truncation toward zero of the rational num/den (den > 0)
int(num, den) == IF num >= 0 THEN num \div den ELSE -((-num) \div den)

\* fftshift rolling by (n - 1) // 2: an off-by-one in the half length
fftshift_short(a) ==
    LET R == a.shape[1]
        C == a.shape[2]
    IN  [a EXCEPT !.data =
            [p \in Idx(a.shape) |->
                a.data[<<(p[1] - ((R - 1) \div 2)) % R, (p[2] - ((C - 1) \div 2)) % C>>]]]

\* np.fft.fftshift: np.roll by n // 2 along every axis
fftshift(a) ==
    LET R == a.shape[1]
        C == a.shape[2]
    IN  [a EXCEPT !.data =
            [p \in Idx(a.shape) |->
                a.data[<<(p[1] - (R \div 2)) % R, (p[2] - (C \div 2)) % C>>]]]

\* Python slice a[start:stop] on an axis of length n: the indices it selects
SliceBound(i, n) == IF i < 0 THEN (IF i + n < 0 THEN 0 ELSE i + n)
                    ELSE (IF i > n THEN n ELSE i)
SliceIdx(start, stop, n) ==
    {i \in 0..(n - 1) : SliceBound(start, n) <= i /\ i < SliceBound(stop, n)}
SliceLen(start, stop, n) == Cardinality(SliceIdx(start, stop, n))

\* a[r0:r1, c0:c1] as an array of its own shape
SliceOf(a, r0, r1, c0, c1) ==
    LET sh == <<SliceLen(r0, r1, a.shape[1]), SliceLen(c0, c1, a.shape[2])>>
    IN  [shape |-> sh,
         data |-> [p \in Idx(sh) |->
                     a.data[<<SliceBound(r0, a.shape[1]) + p[1],
                              SliceBound(c0, a.shape[2]) + p[2]>>]]]

\* a[r0:r1, c0:c1] = v
SliceAssign(a, r0, r1, c0, c1, v) ==
    [a EXCEPT !.data =
        [p \in Idx(a.shape) |->
            IF /\ p[1] \in SliceIdx(r0, r1, a.shape[1])
               /\ p[2] \in SliceIdx(c0, c1, a.shape[2])
            THEN v ELSE a.data[p]]]

\* np.zeros(shape, dtype=bool)
zeros_bool(shape) == [shape |-> shape, data |-> [p \in Idx(shape) |-> FALSE]]

\* a[mask] = 0: the selection inverted
MaskAssignZero_inverted(a, mask) ==
    [a EXCEPT !.data =
        [p \in Idx(a.shape) |-> IF mask.data[p] = TRUE THEN <<0, 0>> ELSE a.data[p]]]

\* a[mask == 0] = 0. + 1j*0.
MaskAssignZero(a, mask) ==
    [a EXCEPT !.data =
        [p \in Idx(a.shape) |-> IF mask.data[p] = FALSE THEN <<0, 0>> ELSE a.data[p]]]

\* numpy integer index on an axis of length n: negative indices count from the end
IndexOK(i, n) == -n <= i /\ i < n
WrapIndex(i, n) == IF i < 0 THEN i + n ELSE i

\* ---------------------------------------------------------- scaled arrays
\* A complex array whose entries are data[p] / (den * sqrt(sq)).
ToRing(a) == [shape |-> a.shape,
              data |-> [p \in Idx(a.shape) |-> Embed(a.data[p])],
              den |-> 1, sq |-> 1]

\* a / np.sqrt(n)
DivSqrt(a, n) == [a EXCEPT !.sq = a.sq * n]

\* The 2D DFT sum without normalisation, times 4 (each twiddle is doubled):
\* a 1D transform along axis 1, then one along axis 0.  conj selects the
\* inverse transform's twiddles.  The two passes are tabulated row-major
\* (entry r*C + c + 1 holds index <<r, c>>).
Dft(a, conj) ==
    LET R == a.shape[1]
        C == a.shape[2]
        tw(n, j) == IF conj THEN CConj(Twiddle(n, j)) ELSE Twiddle(n, j)
        src == [k \in 1..(R * C) |-> a.data[<<(k - 1) \div C, (k - 1) % C>>]] \o <<>>
        rows == [k \in 1..(R * C) |->
                    LET r == (k - 1) \div C
                        c == (k - 1) % C
                    IN  CSum([i \in 1..C |-> CMul(src[r * C + i], tw(C, c * (i - 1)))] \o <<>>)]
                \o <<>>
        out == [k \in 1..(R * C) |->
                    LET r == (k - 1) \div C
                        c == (k - 1) % C
                    IN  CSum([j \in 1..R |-> CMul(rows[(j - 1) * C + c + 1],
                                                 tw(R, r * (j - 1)))] \o <<>>)]
               \o <<>>
    IN  [p \in Idx(a.shape) |-> out[p[1] * C + p[2] + 1]]

\* np.fft.fft2(a, norm='ortho'): the DFT divided by sqrt(rows*cols)
fft2(a) ==
    [shape |-> a.shape,
     data |-> Dft(a, FALSE),
     den |-> 4 * a.den,
     sq |-> a.sq * (a.shape[1] * a.shape[2])]

\* fft2 refuses an axis of length 0 (ValueError)
FftOK(a) == a.shape[1] >= 1 /\ a.shape[2] >= 1

\* sum of squared magnitudes, as the fraction num / dsq (num in Z[sqrt 3])
Energy(a) ==
    LET R == a.shape[1]
        C == a.shape[2]
    IN  [num |-> RSum([i \in 1..(R * C) |->
                    CAbs2(a.data[<<(i - 1) \div C, (i - 1) % C>>])] \o <<>>),
         dsq |-> a.den * a.den * a.sq]

\* floor of the square root
RECURSIVE ISqrt(_)
ISqrt(n) == IF n < 2 THEN n
            ELSE LET s == 2 * ISqrt(n \div 4)
                 IN  IF (s + 1) * (s + 1) <= n THEN s + 1 ELSE s

\* the scale den * sqrt(sq) of an array whose sq is a perfect square
Scale(a) == a.den * ISqrt(a.sq)
RationalScale(a) == ISqrt(a.sq) * ISqrt(a.sq) = a.sq

\* two scaled arrays hold the same complex numbers
SameValues(a, b) ==
    \A x \in {a}, y \in {b} :
        /\ x.shape = y.shape
        /\ RationalScale(x) /\ RationalScale(y)
        /\ \A p \in Idx(x.shape) :
              CScale(Scale(y), x.data[p]) = CScale(Scale(x), y.data[p])

\* two energies (fractions num / dsq) are equal
SameEnergy(e, f) == RScale(f.dsq, e.num) = RScale(e.dsq, f.num)

\* --------------------------------------------------------------- rationals
\* A real parameter is a rational <<num, den>> with den > 0.
RECURSIVE GCD(_, _)
GCD(a, b) == IF b = 0 THEN a ELSE GCD(b, a % b)
Abs(n) == IF n < 0 THEN -n ELSE n
QNorm(q) == LET g == GCD(Abs(q[1]), q[2]) IN <<q[1] \div g, q[2] \div g>>
QAdd(p, q) == QNorm(<<p[1] * q[2] + q[1] * p[2], p[2] * q[2]>>)
QMul(p, q) == QNorm(<<p[1] * q[1], p[2] * q[2]>>)
\* p / q for q # 0
QDiv(p, q) == IF q[1] > 0 THEN QNorm(<<p[1] * q[2], p[2] * q[1]>>)
              ELSE QNorm(<<-(p[1] * q[2]), p[2] * (-q[1])>>)
QInt(n) == <<n, 1>>
\* the fractional part, in [0, 1)
QFrac(q) == QNorm(<<q[1] % q[2], q[2]>>)

\* ---------------------------------------------------------------- sinusoid
\* A pixel of a sinusoid image is pi * sin(2*pi*t); it is held as the
\* fraction of a turn t, reduced to [0, 1).  Phases are given in turns.
SinZero == <<0, 1>>
\* pi*sin(2*pi*s) = pi*sin(2*pi*t)
SameSin(s, t) == s = t \/ QFrac(QAdd(s, t)) = <<1, 2>>
\* pi*sin(2*pi*t) = 0
IsZeroSin(t) == t = <<0, 1>> \/ t = <<1, 2>>

\* np.pi * np.sin(2*np.pi*fx*x/wx+phix+2*np.pi*fy*y/wy+phiy)
SinValue(x, y, wx, wy, fx, fy, phix, phiy) ==
    QFrac(QAdd(QAdd(QDiv(QMul(fx, QInt(x)), wx), phix),
               QAdd(QDiv(QMul(fy, QInt(y)), wy), phiy)))

\* calculate_sinusoid: the exception raised ("none" if it returns) and the
\* image returned.  The loops run y over axis 0 and x over axis 1 and write
\* sin_xy[x,y].
calculate_sinusoid(dimension, wx, wy, fx, fy, phix, phiy) ==
    IF Len(dimension) # 2
    THEN [err |-> "ValueError", out |-> <<>>]
    ELSE
      LET d0 == dimension[1]
          d1 == dimension[2]
          steps == {it \in (0..(d0 - 1)) \X (0..(d1 - 1)) : TRUE}
      IN  IF steps # {} /\ (wx[1] = 0 \/ wy[1] = 0)
          THEN [err |-> "ZeroDivisionError", out |-> <<>>]
          ELSE IF \E it \in steps : ~IndexOK(it[2], d0) \/ ~IndexOK(it[1], d1)
          THEN [err |-> "IndexError", out |-> <<>>]
          ELSE [err |-> "none",
                out |-> [shape |-> <<d0, d1>>,
                         data |-> [p \in Idx(<<d0, d1>>) |->
                             IF <<p[2], p[1]>> \in steps
                             THEN SinValue(p[1], p[2], wx, wy, fx, fy, phix, phiy)
                             ELSE SinZero]]]

\* ------------------------------------------------------------------ inputs
\* The loaded spectrum: all zero, all cells distinct, or one non-zero cell.
ZeroSpectrum(sh) == [shape |-> sh, data |-> [p \in Idx(sh) |-> <<0, 0>>]]
RampSpectrum(sh) ==
    [shape |-> sh, data |-> [p \in Idx(sh) |-> <<p[1] * sh[2] + p[2] + 1, p[2] - p[1]>>]]
PointSpectrum(sh, q, v) ==
    [shape |-> sh, data |-> [p \in Idx(sh) |-> IF p = q THEN v ELSE <<0, 0>>]]
Spectra(sh) ==
    {ZeroSpectrum(sh), RampSpectrum(sh)}
        \cup {PointSpectrum(sh, q, v) : q \in Idx(sh), v \in PointValues}
BasisSpectra(sh) ==
    {ZeroSpectrum(sh), RampSpectrum(sh)}
        \cup {PointSpectrum(sh, q, <<10, 10>>) : q \in Idx(sh)}

\* The literals of the region-selection cell and of the interference cell.
MaskLiterals == [OFFSETx : Offsets, OFFSETy : Offsets,
                 Kx_half_side : HalfSides, Ky_half_side : HalfSides]
InterfLiterals == [OFFSETx : Offsets, OFFSETy : Offsets, value : PointValues]
DefaultMask == [OFFSETx |-> 0, OFFSETy |-> 0, Kx_half_side |-> 1, Ky_half_side |-> 1]
DefaultInterf == [OFFSETx |-> 0, OFFSETy |-> 0, value |-> <<10, 10>>]

\* arguments of a call of calculate_sinusoid
MaxDim == 3
Dimensions == ((1..MaxDim) \X (1..MaxDim)) \cup {<<2, 2, 2>>}
Periods == {QInt(0), QInt(1), QInt(4)}
Frequencies == {QInt(0), QInt(1), <<1, 2>>}
Phases == {QInt(0), <<1, 4>>}
SinusoidArgs == [dimension : Dimensions, wx : Periods, wy : Periods,
                 fx : Frequencies, fy : Frequencies, phix : Phases, phiy : Phases]
DefaultSinusoid == [dimension |-> <<2, 2>>, wx |-> QInt(1), wy |-> QInt(1),
                    fx |-> QInt(0), fy |-> QInt(0), phix |-> QInt(0), phiy |-> QInt(0)]

\* ------------------------------------------------------------------- state
VARIABLES
    kspace,              \* the loaded spectrum, shape <<Nx, Ny>>
    Nx, Ny,              \* kspace.shape[0], kspace.shape[1]
    lit,                 \* the literals written in the cells
    defined,             \* the global names assigned so far
    kspace_shifted, img,
    OFFSETx, OFFSETy, Kx_half_side, Ky_half_side,
    x_start, x_stop, y_start, y_stop,
    kspace_mod, frequency_mask,
    kspace_mod_shifted, img_mod,
    image_number, K_x, K_y, sin2D,
    difference,
    kspace_mod_by,       \* history: the cell that assigned kspace_mod
    reconstructed,       \* history: the masked and the interference
                         \* reconstruction, once each has been computed
    last,                \* the cell run last
    err                  \* its outcome: "none" or the exception it raised

vars == <<kspace, Nx, Ny, lit, defined, kspace_shifted, img,
          OFFSETx, OFFSETy, Kx_half_side, Ky_half_side,
          x_start, x_stop, y_start, y_stop,
          kspace_mod, frequency_mask, kspace_mod_shifted, img_mod,
          image_number, K_x, K_y, sin2D, difference,
          kspace_mod_by, reconstructed, last, err>>

\* an unassigned array name
NoArray == [shape |-> <<0, 0>>, data |-> [p \in {} |-> <<0, 0>>]]
NoImage == [shape |-> <<0, 0>>, data |-> [p \in {} |-> CZero], den |-> 1, sq |-> 1]
NoMask == [shape |-> <<0, 0>>, data |-> [p \in {} |-> FALSE]]
NoSinusoid == [shape |-> <<0, 0>>, data |-> [p \in {} |-> SinZero]]
NoDifference == [shape |-> <<0, 0>>, minuend |-> <<>>, subtrahend |-> <<>>]

\* center of k-space: Cx = Nx/2.0, Cy = Ny/2.0; int(Cx), int(Cy) as the cells cast them
iCx == int(Nx, 2)
iCy == int(Ny, 2)

\* The namespace after the loading cell, for given inputs.
Loaded(spectra, literals) ==
    /\ kspace \in spectra
    /\ Nx = kspace.shape[1]
    /\ Ny = kspace.shape[2]
    /\ lit \in literals
    /\ defined = {}
    /\ kspace_shifted = NoArray
    /\ img = NoImage
    /\ OFFSETx = 0 /\ OFFSETy = 0 /\ Kx_half_side = 0 /\ Ky_half_side = 0
    /\ x_start = 0 /\ x_stop = 0 /\ y_start = 0 /\ y_stop = 0
    /\ kspace_mod = NoArray
    /\ frequency_mask = NoMask
    /\ kspace_mod_shifted = NoArray
    /\ img_mod = NoImage
    /\ image_number = 0 /\ K_x = QInt(0) /\ K_y = QInt(0)
    /\ sin2D = NoSinusoid
    /\ difference = NoDifference
    /\ kspace_mod_by = "none"
    /\ reconstructed = {}
    /\ last = "load"
    /\ err = "none"

inputs == <<kspace, Nx, Ny, lit>>
plotNames == <<image_number, K_x, K_y, sin2D, difference>>
history == <<kspace_mod_by, reconstructed>>
maskNames == <<OFFSETx, OFFSETy, Kx_half_side, Ky_half_side,
               x_start, x_stop, y_start, y_stop, frequency_mask>>

\* the reconstruction transform: np.fft.fft2( a / np.sqrt(Nx*Ny), norm='ortho' )
Reconstruct(a) == fft2(DivSqrt(ToRing(a), Nx * Ny))

\* ------------------------------------------------------------------- cells
\* kspace_shifted = np.fft.fftshift( kspace )
ShiftCell ==
    /\ kspace_shifted' = fftshift(kspace)
    /\ defined' = defined \cup {"kspace_shifted"}
    /\ err' = "none"
    /\ last' = "ShiftCell"
    /\ UNCHANGED <<inputs, history, plotNames, img, maskNames, kspace_mod, kspace_mod_shifted, img_mod>>

\* img = np.fft.fft2( kspace_shifted / np.sqrt(Nx*Ny), norm='ortho' )
ReconstructCell ==
    /\ "kspace_shifted" \in defined
    /\ img' = Reconstruct(kspace_shifted)
    /\ defined' = defined \cup {"img"}
    /\ err' = "none"
    /\ last' = "ReconstructCell"
    /\ UNCHANGED <<inputs, history, plotNames, kspace_shifted, maskNames, kspace_mod,
                   kspace_mod_shifted, img_mod>>

\* the region-selection cell: bounds, the selected view and the mask
SelectRegionCell ==
    LET xs == iCx + lit.mask.OFFSETx - lit.mask.Kx_half_side
        xe == iCx + lit.mask.OFFSETx + lit.mask.Kx_half_side
        ys == iCy + lit.mask.OFFSETy - lit.mask.Ky_half_side
        ye == iCy + lit.mask.OFFSETy + lit.mask.Ky_half_side
    IN  /\ OFFSETx' = lit.mask.OFFSETx
        /\ OFFSETy' = lit.mask.OFFSETy
        /\ Kx_half_side' = lit.mask.Kx_half_side
        /\ Ky_half_side' = lit.mask.Ky_half_side
        /\ x_start' = xs /\ x_stop' = xe /\ y_start' = ys /\ y_stop' = ye
        /\ kspace_mod' = SliceOf(kspace, ys, ye + 1, xs, xe + 1)
        /\ frequency_mask' =
              SliceAssign(zeros_bool(<<Nx, Ny>>), ys, ye + 1, xs, xe + 1, TRUE)
        /\ defined' = defined \cup {"OFFSET", "K_half_side", "kspace_mod", "frequency_mask"}
        /\ err' = "none"
        /\ kspace_mod_by' = "SelectRegionCell"
        /\ reconstructed' = reconstructed
        /\ last' = "SelectRegionCell"
        /\ UNCHANGED <<inputs, plotNames, kspace_shifted, img, kspace_mod_shifted, img_mod>>

\* the mask applied to kspace itself, without the copy
ApplyMaskCell_inplace ==
    /\ "frequency_mask" \in defined
    /\ kspace' = MaskAssignZero(kspace, frequency_mask)
    /\ kspace_mod' = kspace'
    /\ defined' = defined \cup {"kspace_mod"}
    /\ err' = "none"
    /\ kspace_mod_by' = "ApplyMaskCell"
    /\ reconstructed' = reconstructed
    /\ last' = "ApplyMaskCell"
    /\ UNCHANGED <<Nx, Ny, lit, plotNames, kspace_shifted, img, maskNames, kspace_mod_shifted, img_mod>>

\* kspace_mod = kspace.copy(); kspace_mod[frequency_mask==0] = 0. + 1j*0.
ApplyMaskCell ==
    /\ "frequency_mask" \in defined
    /\ kspace_mod' = MaskAssignZero(kspace, frequency_mask)
    /\ defined' = defined \cup {"kspace_mod"}
    /\ err' = "none"
    /\ kspace_mod_by' = "ApplyMaskCell"
    /\ reconstructed' = reconstructed
    /\ last' = "ApplyMaskCell"
    /\ UNCHANGED <<inputs, plotNames, kspace_shifted, img, maskNames, kspace_mod_shifted, img_mod>>

\* the interference cell with the column index forgotten: a whole row is written
InjectCell_row ==
    LET r == iCy + lit.interf.OFFSETy
        c == iCx + lit.interf.OFFSETx
        ok == IndexOK(r, kspace.shape[1]) /\ IndexOK(c, kspace.shape[2])
        row == WrapIndex(r, kspace.shape[1])
    IN  /\ OFFSETx' = lit.interf.OFFSETx
        /\ OFFSETy' = lit.interf.OFFSETy
        /\ kspace_mod' =
              IF ok THEN [kspace EXCEPT !.data =
                             [p \in Idx(kspace.shape) |->
                                 IF p[1] = row THEN lit.interf.value ELSE kspace.data[p]]]
                    ELSE kspace
        /\ defined' = defined \cup {"OFFSET", "kspace_mod"}
        /\ err' = IF ok THEN "none" ELSE "IndexError"
        /\ kspace_mod_by' = IF ok THEN "InjectCell" ELSE "copy"
        /\ reconstructed' = reconstructed
        /\ last' = "InjectCell"
        /\ UNCHANGED <<inputs, plotNames, kspace_shifted, img, Kx_half_side, Ky_half_side,
                       x_start, x_stop, y_start, y_stop, frequency_mask,
                       kspace_mod_shifted, img_mod>>

\* the interference cell: one coefficient of a copy of kspace is overwritten
InjectCell ==
    LET r == iCy + lit.interf.OFFSETy
        c == iCx + lit.interf.OFFSETx
        ok == IndexOK(r, kspace.shape[1]) /\ IndexOK(c, kspace.shape[2])
        at == <<WrapIndex(r, kspace.shape[1]), WrapIndex(c, kspace.shape[2])>>
    IN  /\ OFFSETx' = lit.interf.OFFSETx
        /\ OFFSETy' = lit.interf.OFFSETy
        /\ kspace_mod' = IF ok THEN [kspace EXCEPT !.data[at] = lit.interf.value]
                               ELSE kspace
        /\ defined' = defined \cup {"OFFSET", "kspace_mod"}
        /\ err' = IF ok THEN "none" ELSE "IndexError"
        /\ kspace_mod_by' = IF ok THEN "InjectCell" ELSE "copy"
        /\ reconstructed' = reconstructed
        /\ last' = "InjectCell"
        /\ UNCHANGED <<inputs, plotNames, kspace_shifted, img, Kx_half_side, Ky_half_side,
                       x_start, x_stop, y_start, y_stop, frequency_mask,
                       kspace_mod_shifted, img_mod>>

\* kspace_mod_shifted = np.fft.fftshift( kspace_mod ); img_mod = np.fft.fft2( ... )
ReconstructModCell ==
    /\ "kspace_mod" \in defined
    /\ kspace_mod_shifted' = fftshift(kspace_mod)
    /\ IF FftOK(kspace_mod)
         THEN /\ img_mod' = Reconstruct(fftshift(kspace_mod))
              /\ reconstructed' = reconstructed
                     \cup ({kspace_mod_by} \cap {"ApplyMaskCell", "InjectCell"})
              /\ defined' = defined \cup {"kspace_mod_shifted", "img_mod"}
              /\ err' = "none"
         ELSE /\ img_mod' = img_mod
              /\ reconstructed' = reconstructed
              /\ defined' = defined \cup {"kspace_mod_shifted"}
              /\ err' = "ValueError"
    /\ kspace_mod_by' = kspace_mod_by
    /\ last' = "ReconstructModCell"
    /\ UNCHANGED <<inputs, plotNames, kspace_shifted, img, maskNames, kspace_mod>>

\* K_max, the period handed to calculate_sinusoid, in units of K_max
KMAX == QInt(1)
\* K_max/2. * (i-C)/C with C = N/2.0, in units of K_max
Kcoord(i, N) == QNorm(<<2 * i - N, 2 * N>>)
\* the loop draws at most this many sinusoids
MaxImages == 40

\* The loop over the mask from its k-th step on (iy descending, ix ascending);
\* st holds the names the loop assigns, the row its break left and the
\* exception raised so far.
RECURSIVE SinusoidLoop(_, _)
SinusoidLoop(k, st) ==
    IF k > Nx * Ny \/ st.err # "none" THEN st
    ELSE
      LET iy == Ny - 1 - ((k - 1) \div Nx)
          ix == (k - 1) % Nx
      IN  IF st.broken = iy THEN SinusoidLoop(k + 1, st)
          ELSE IF ~(IndexOK(iy, frequency_mask.shape[1])
                    /\ IndexOK(ix, frequency_mask.shape[2]))
          THEN [st EXCEPT !.err = "IndexError"]
          ELSE IF ~frequency_mask.data[<<iy, ix>>] THEN SinusoidLoop(k + 1, st)
          ELSE IF st.image_number + 1 > MaxImages
          THEN SinusoidLoop(k + 1, [st EXCEPT !.image_number = @ + 1, !.broken = iy])
          ELSE
            LET kx == Kcoord(ix, Nx)
                ky == Kcoord(iy, Ny)
                r == calculate_sinusoid(<<Ny, Nx>>, KMAX, KMAX, ky, kx, QInt(0), QInt(0))
            IN  SinusoidLoop(k + 1,
                    [st EXCEPT !.image_number = @ + 1, !.K_x = kx, !.K_y = ky,
                               !.sin2D = IF r.err = "none" THEN r.out ELSE @,
                               !.drawn = @ \/ r.err = "none",
                               !.coords = TRUE,
                               !.err = r.err])

\* image_number = 0; for iy in range(Ny)[::-1]: for ix in range(Nx):
\*   if frequency_mask[iy,ix] == True: ... sin2D = calculate_sinusoid( ... )
SinusoidLoopCell ==
    /\ "frequency_mask" \in defined
    /\ LET st == SinusoidLoop(1, [image_number |-> 0, K_x |-> K_x, K_y |-> K_y,
                                  sin2D |-> sin2D, drawn |-> FALSE, coords |-> FALSE,
                                  broken |-> -1, err |-> "none"])
       IN  /\ image_number' = st.image_number
           /\ K_x' = st.K_x
           /\ K_y' = st.K_y
           /\ sin2D' = st.sin2D
           /\ defined' = defined \cup {"image_number"}
                            \cup (IF st.coords THEN {"K"} ELSE {})
                            \cup (IF st.drawn THEN {"sin2D"} ELSE {})
           /\ err' = st.err
    /\ last' = "SinusoidLoopCell"
    /\ UNCHANGED <<inputs, history, kspace_shifted, img, maskNames, kspace_mod,
                   kspace_mod_shifted, img_mod, difference>>

\* K_x = K_max/2. *(OFFSETx-Cx)/Cx; K_y = K_max/2. *(OFFSETy-Cy)/Cy
\* sin2D = calculate_sinusoid( (Ny,Nx), K_max,K_max, K_y,K_x )
InterfSinusoidCell ==
    /\ "OFFSET" \in defined
    /\ K_x' = Kcoord(OFFSETx, Nx)
    /\ K_y' = Kcoord(OFFSETy, Ny)
    /\ LET r == calculate_sinusoid(<<Ny, Nx>>, KMAX, KMAX, K_y', K_x', QInt(0), QInt(0))
       IN  /\ sin2D' = IF r.err = "none" THEN r.out ELSE sin2D
           /\ defined' = defined \cup {"K"}
                            \cup (IF r.err = "none" THEN {"sin2D"} ELSE {})
           /\ err' = r.err
    /\ last' = "InterfSinusoidCell"
    /\ UNCHANGED <<inputs, history, kspace_shifted, img, maskNames, kspace_mod,
                   kspace_mod_shifted, img_mod, image_number, difference>>

\* np.abs of a scaled array: pixel p is sqrt(data[p] / div)
absolute(a) == [shape |-> a.shape,
                data |-> [p \in Idx(a.shape) |-> CAbs2(a.data[p])],
                div |-> a.den * a.den * a.sq]
\* numpy broadcasting of two 2-D shapes
Broadcastable(s, t) == \A i \in 1..2 : s[i] = t[i] \/ s[i] = 1 \/ t[i] = 1
BroadcastShape(s, t) == [i \in 1..2 |-> IF s[i] = 1 THEN t[i] ELSE s[i]]
BroadcastTo(a, sh) ==
    [a EXCEPT !.shape = sh,
              !.data = [p \in Idx(sh) |->
                           a.data[<<IF a.shape[1] = 1 THEN 0 ELSE p[1],
                                    IF a.shape[2] = 1 THEN 0 ELSE p[2]>>]]]
\* a - b, pixel by pixel, held as the pair of its operands
subtract(a, b) ==
    LET sh == BroadcastShape(a.shape, b.shape)
    IN  [shape |-> sh, minuend |-> BroadcastTo(a, sh), subtrahend |-> BroadcastTo(b, sh)]
\* two arrays of magnitudes hold the same numbers
SameMagnitudes(a, b) ==
    /\ a.shape = b.shape
    /\ \A p \in Idx(a.shape) :
          LET g == GCD(a.div, b.div)
          IN  RScale(b.div \div g, a.data[p]) = RScale(a.div \div g, b.data[p])

\* difference = np.abs(img) - np.abs(img_mod)
DifferenceCell ==
    /\ "img" \in defined
    /\ "img_mod" \in defined
    /\ IF Broadcastable(img.shape, img_mod.shape)
         THEN /\ difference' = subtract(absolute(img), absolute(img_mod))
              /\ defined' = defined \cup {"difference"}
              /\ err' = "none"
         ELSE /\ difference' = difference
              /\ defined' = defined
              /\ err' = "ValueError"
    /\ last' = "DifferenceCell"
    /\ UNCHANGED <<inputs, history, kspace_shifted, img, maskNames, kspace_mod,
                   kspace_mod_shifted, img_mod, image_number, K_x, K_y, sin2D>>

Next ==
    \/ ShiftCell
    \/ ReconstructCell
    \/ SelectRegionCell
    \/ ApplyMaskCell
    \/ InjectCell
    \/ ReconstructModCell

Init == Loaded(UNION {BasisSpectra(sh) : sh \in Shapes},
               [mask : {DefaultMask}, interf : {DefaultInterf},
                sinusoid : {DefaultSinusoid}])

Spec == Init /\ [][Next]_vars

\* The cells that edit k-space, over every choice of the cells' literals:
\* every region of the selection cell, and every position and value of the
\* interference cell.
InitEdit ==
    \/ Loaded(UNION {{ZeroSpectrum(sh), RampSpectrum(sh)} : sh \in Shapes},
              [mask : MaskLiterals, interf : {DefaultInterf},
               sinusoid : {DefaultSinusoid}])
    \/ Loaded(UNION {Spectra(sh) : sh \in Shapes},
              [mask : {DefaultMask}, interf : InterfLiterals,
               sinusoid : {DefaultSinusoid}])

NextEdit ==
    \/ SelectRegionCell
    \/ ApplyMaskCell
    \/ InjectCell

SpecEdit == InitEdit /\ [][NextEdit]_vars

\* The editing cells together with the cells that draw the sinusoids of the
\* selected coefficients.
NextPlot ==
    \/ NextEdit
    \/ SinusoidLoopCell
    \/ InterfSinusoidCell

InitPlot ==
    Loaded({RampSpectrum(sh) : sh \in Shapes},
           [mask : {DefaultMask},
            interf : {l \in InterfLiterals :
                         l.value = <<10, 10>> /\ l.OFFSETy \in {0, l.OFFSETx}},
            sinusoid : {DefaultSinusoid}])

SpecPlot == InitPlot /\ [][NextPlot]_vars

\* Every cell of the notebook, in any order, on ramp spectra.
InitAll ==
    Loaded({RampSpectrum(sh) : sh \in {t \in Shapes : t[1] = t[2]} \cup {<<2, 3>>, <<3, 2>>}},
           [mask : {DefaultMask},
            interf : {l \in InterfLiterals :
                         l.value = <<10, 10>> /\ l.OFFSETy = 0
                         /\ l.OFFSETx \in {0, MaxOffset}},
            sinusoid : {DefaultSinusoid}])

NextAll ==
    \/ Next
    \/ SinusoidLoopCell
    \/ InterfSinusoidCell
    \/ DifferenceCell

SpecAll == InitAll /\ [][NextAll]_vars

\* A call sin2D = calculate_sinusoid(dimension, wx, wy, fx, fy, phix, phiy)
\* on its own, for arguments drawn at the start.
SynthesizeCall ==
    /\ last = "load"
    /\ LET a == lit.sinusoid
           r == calculate_sinusoid(a.dimension, a.wx, a.wy, a.fx, a.fy, a.phix, a.phiy)
       IN  /\ sin2D' = IF r.err = "none" THEN r.out ELSE sin2D
           /\ defined' = defined \cup (IF r.err = "none" THEN {"sin2D"} ELSE {})
           /\ err' = r.err
    /\ last' = "SynthesizeCall"
    /\ UNCHANGED <<inputs, history, kspace_shifted, img, maskNames, kspace_mod,
                   kspace_mod_shifted, img_mod, image_number, K_x, K_y, difference>>

InitSinusoid ==
    Loaded({ZeroSpectrum(<<1, 1>>)},
           [mask : {DefaultMask}, interf : {DefaultInterf}, sinusoid : SinusoidArgs])

SpecSinusoid == InitSinusoid /\ [][SynthesizeCall]_vars

\* ------------------------------------------------- the inverse transform
\* np.fft.ifft2(a, norm='ortho')
ifft2(a) ==
    [shape |-> a.shape,
     data |-> Dft(a, TRUE),
     den |-> 4 * a.den,
     sq |-> a.sq * (a.shape[1] * a.shape[2])]

\* The inverse of the pair, with the engine's normalisation: the image divided
\* by sqrt(Nx*Ny), then the inverse DFT with orthonormal scaling.
InverseTransform(a) == ifft2(DivSqrt(a, Nx * Ny))
\* The forward transform applied to an array that already carries a scale.
ForwardTransform(a) == fft2(DivSqrt(a, Nx * Ny))

\* ================================================================== claims
AllDistinct(a) == \A p, q \in Idx(a.shape) : p # q => a.data[p] # a.data[q]
EvenShape == Nx % 2 = 0 /\ Ny % 2 = 0
OddAxis == (Nx % 2 = 1 /\ Nx > 1) \/ (Ny % 2 = 1 /\ Ny > 1)

\* C1: the reconstruction transform preserves total signal energy: the sum of
\* squared magnitudes of img equals that of the spectrum it was computed from.
C1_EnergyPreserved ==
    ("img" \in defined) =>
        SameEnergy(Energy(img), Energy(ToRing(kspace_shifted)))

\* C2: forward then inverse returns the spectrum, and inverse then forward
\* returns it too, each direction with the division by sqrt(Nx*Ny) on top of
\* the orthonormal scaling.
C2_RoundTrip ==
    ("img" \in defined) =>
        /\ SameValues(InverseTransform(img), ToRing(kspace_shifted))
        /\ SameValues(ForwardTransform(InverseTransform(ToRing(kspace_shifted))),
                      ToRing(kspace_shifted))

\* C3: on the 4x4 zero spectrum, the interference cell at center-origin (0,0)
\* with value 10+10i writes array index (2,2), and after shift and
\* reconstruction every pixel has squared magnitude 200/16.
C3_PointScenario ==
    LET injected == [ZeroSpectrum(<<4, 4>>) EXCEPT !.data[<<2, 2>>] = <<10, 10>>]
    IN  (kspace = ZeroSpectrum(<<4, 4>>) /\ lit.interf = DefaultInterf) =>
          /\ (last = "InjectCell" => kspace_mod = injected)
          /\ (last = "ReconstructModCell" /\ kspace_mod = injected) =>
                \A p \in Idx(img_mod.shape) :
                    RScale(16, CAbs2(img_mod.data[p]))
                        = <<200 * img_mod.den * img_mod.den * img_mod.sq, 0>>

\* C4: with both sizes even, shifting the shifted spectrum gives back the
\* spectrum exactly; with an odd size greater than 1, shifting twice moves
\* coefficients (a spectrum whose coefficients are all distinct is changed).
C4_ShiftInvolution ==
    ("kspace_shifted" \in defined) =>
        /\ (EvenShape => fftshift(kspace_shifted) = kspace)
        /\ (OddAxis /\ AllDistinct(kspace) => fftshift(kspace_shifted) # kspace)

C4_Witness ==
    /\ "kspace_shifted" \in defined
    /\ kspace.shape = <<4, 2>>
    /\ AllDistinct(kspace)
    /\ kspace_shifted # kspace
    /\ fftshift(kspace_shifted) = kspace

\* C5: shift puts at output index (0,0) the coefficient of the input's center
\* index [int(Cy), int(Cx)] (the index the mask and interference cells use),
\* and puts at the output's center index the coefficient of input index (0,0).
C5_CenterToOrigin ==
    ("kspace_shifted" \in defined /\ <<iCy, iCx>> \in Idx(kspace.shape)) =>
        /\ kspace_shifted.data[<<0, 0>>] = kspace.data[<<iCy, iCx>>]
        /\ kspace_shifted.data[<<iCy, iCx>>] = kspace.data[<<0, 0>>]

\* the bounds of the selected region lie inside the array the cell slices
RegionInRange ==
    /\ 0 <= y_start /\ y_stop < kspace.shape[1]
    /\ 0 <= x_start /\ x_stop < kspace.shape[2]

\* C6: the region-selection cell fails (OutOfRange) whenever a bound of the
\* requested rectangle falls outside [0, size) on either axis; it never
\* builds a clamped or wrapped mask.
C6_OutOfRangeRejected ==
    (last = "SelectRegionCell" /\ ~RegionInRange) => err # "none"

\* the rectangle of the claim: center of each axis (length div 2) plus offset,
\* y along axis 0 and x along axis 1, both endpoints included
ClaimedRows ==
    ((kspace.shape[1] \div 2) + OFFSETy - Ky_half_side)
        ..((kspace.shape[1] \div 2) + OFFSETy + Ky_half_side)
ClaimedCols ==
    ((kspace.shape[2] \div 2) + OFFSETx - Kx_half_side)
        ..((kspace.shape[2] \div 2) + OFFSETx + Kx_half_side)
ClaimedInBounds ==
    /\ ClaimedRows \subseteq 0..(kspace.shape[1] - 1)
    /\ ClaimedCols \subseteq 0..(kspace.shape[2] - 1)

\* C7: for every shape, square or not, and every in-bounds offset and
\* half-extents, the mask has the spectrum's shape and is True at exactly the
\* cells of the rectangle placed at the spectrum's center plus the offset.
C7_MaskRectangle ==
    (last = "SelectRegionCell" /\ ClaimedInBounds) =>
        /\ frequency_mask.shape = kspace.shape
        /\ \A p \in Idx(kspace.shape) :
              frequency_mask.data[p] = (p[1] \in ClaimedRows /\ p[2] \in ClaimedCols)

\* C8: after the mask is applied, kspace_mod has the spectrum's shape, equals
\* the spectrum wherever the mask is True and is zero wherever it is False;
\* a full-True mask gives the spectrum back, a full-False mask gives zeros.
C8_ApplyMask ==
    (last = "ApplyMaskCell") =>
        /\ kspace_mod.shape = kspace.shape
        /\ \A p \in Idx(kspace.shape) :
              kspace_mod.data[p] =
                  IF frequency_mask.data[p] THEN kspace.data[p] ELSE <<0, 0>>
        /\ (\A p \in Idx(kspace.shape) : frequency_mask.data[p]) => kspace_mod = kspace
        /\ (\A p \in Idx(kspace.shape) : ~frequency_mask.data[p])
              => kspace_mod = ZeroSpectrum(kspace.shape)

C8_Witness ==
    /\ last = "ApplyMaskCell"
    /\ \E p, q \in Idx(kspace.shape) :
          /\ frequency_mask.data[p] /\ ~frequency_mask.data[q]
          /\ kspace_mod.data[p] # <<0, 0>>
          /\ kspace.data[q] # <<0, 0>> /\ kspace_mod.data[q] = <<0, 0>>

\* the index the interference cell writes, and whether it lies in the array
InjectRow == iCy + OFFSETy
InjectCol == iCx + OFFSETx
InjectInRange ==
    /\ 0 <= InjectRow /\ InjectRow < kspace.shape[1]
    /\ 0 <= InjectCol /\ InjectCol < kspace.shape[2]

\* C9: the interference cell fails (OutOfRange) whenever center plus position
\* is outside [0, size) on either axis, a negative index included.
C9_InjectOutOfRange ==
    (last = "InjectCell" /\ ~InjectInRange) => err = "IndexError"

Args == lit.sinusoid
\* pi*sin(2*pi*freqX*x/periodX + phaseX + 2*pi*freqY*y/periodY + phaseY),
\* as a fraction of a turn
ClaimedPixel(x, y) ==
    QFrac(QAdd(QAdd(QDiv(QMul(Args.fx, QInt(x)), Args.wx), Args.phix),
               QAdd(QDiv(QMul(Args.fy, QInt(y)), Args.wy), Args.phiy)))

\* C11: for every 2-element shape, square or not, and nonzero periods the
\* call returns an array of that shape whose pixel (x,y) is
\* pi*sin(2*pi*freqX*x/periodX + phaseX + 2*pi*freqY*y/periodY + phaseY) for
\* every (x,y) of the shape; with zero frequencies and phases every value is 0.
C11_Synthesize ==
    (/\ last = "SynthesizeCall"
     /\ Len(Args.dimension) = 2
     /\ Args.wx # QInt(0) /\ Args.wy # QInt(0)) =>
        /\ err = "none"
        /\ sin2D.shape = Args.dimension
        /\ \A p \in Idx(Args.dimension) :
              /\ SameSin(sin2D.data[p], ClaimedPixel(p[1], p[2]))
              /\ (/\ Args.fx = QInt(0) /\ Args.fy = QInt(0)
                  /\ Args.phix = QInt(0) /\ Args.phiy = QInt(0))
                     => IsZeroSin(sin2D.data[p])

\* C11 on square shapes only
C11_Square ==
    (Len(Args.dimension) = 2 /\ Args.dimension[1] = Args.dimension[2]) => C11_Synthesize

\* the arrays the editing and drawing cells hand to the cells after them
results == <<kspace, kspace_mod, frequency_mask, sin2D>>

\* C12: a mask, injection or sinusoid cell that fails leaves the arrays as
\* they were; in particular a modified spectrum kspace_mod that existed
\* before the failing cell still holds its previous value.
C12_FailureAtomic ==
    [][(err' # "none" /\ "kspace_mod" \in defined) => UNCHANGED results]_vars

\* C12 for the failures of the sinusoid cells alone
C12_SinusoidFailure ==
    [][(err' # "none" /\ last' \in {"SinusoidLoopCell", "InterfSinusoidCell"})
          => UNCHANGED results]_vars

\* C13: no cell, run in any order and any number of times, changes a
\* coefficient of the loaded spectrum kspace: the editing cells write to
\* copies, the shift and the transform return new arrays.
C13_SpectrumUntouched == [][kspace' = kspace]_vars

\* every cell has run, the last one edited its copy, and kspace still holds
\* the loaded ramp
C13_Witness ==
    /\ {"kspace_shifted", "img", "frequency_mask", "kspace_mod", "img_mod",
        "difference"} \subseteq defined
    /\ last \in {"ApplyMaskCell", "InjectCell"}
    /\ err = "none"
    /\ kspace_mod.shape = kspace.shape
    /\ kspace_mod # kspace
    /\ kspace = RampSpectrum(kspace.shape)

\* C14: the coordinates K_x, K_y with which the interference sinusoid is
\* drawn for the coefficient at center-offset (OFFSETx, OFFSETy) are the ones
\* the mask loop derives for the same array cell, ix = int(Cx)+OFFSETx and
\* iy = int(Cy)+OFFSETy: absolute pixel indices, never center offsets.
C14_PixelIndexCoordinates ==
    (last = "InterfSinusoidCell" /\ InjectInRange) =>
        /\ K_x = Kcoord(InjectCol, Nx)
        /\ K_y = Kcoord(InjectRow, Ny)

\* the mask loop does derive its coordinates from pixel indices: after it,
\* K_x and K_y belong to a cell of the mask
C14_LoopCoordinates ==
    (last = "SinusoidLoopCell" /\ "K" \in defined /\ image_number > 0) =>
        \E ix \in 0..(Nx - 1), iy \in 0..(Ny - 1) :
            K_x = Kcoord(ix, Nx) /\ K_y = Kcoord(iy, Ny)

\* the spectrum the interference cell produces from kspace
InterferenceSpectrum ==
    LET r == iCy + lit.interf.OFFSETy
        c == iCx + lit.interf.OFFSETx
    IN  [kspace EXCEPT !.data[<<WrapIndex(r, kspace.shape[1]),
                                WrapIndex(c, kspace.shape[2])>>] = lit.interf.value]

\* C15: once the masked and the interference reconstruction have both been
\* computed, in whichever order, the difference cell yields
\* |img| - |reconstruction of the interference spectrum|: its result depends
\* on the spectrum and the interference alone, not on the cells run before.
C15_DifferenceHistoryFree ==
    (/\ last = "DifferenceCell" /\ err = "none"
     /\ {"ApplyMaskCell", "InjectCell"} \subseteq reconstructed) =>
        /\ SameMagnitudes(difference.minuend,
                          absolute(Reconstruct(fftshift(kspace))))
        /\ SameMagnitudes(difference.subtrahend,
                          absolute(Reconstruct(fftshift(InterferenceSpectrum))))

\* C15 when the interference reconstruction is the one computed last
C15_InOrder ==
    (/\ last = "DifferenceCell" /\ err = "none"
     /\ kspace_mod_by = "InjectCell"
     /\ kspace_mod_shifted = fftshift(kspace_mod)
     /\ SameValues(img_mod, Reconstruct(kspace_mod_shifted))) =>
        /\ SameMagnitudes(difference.minuend,
                          absolute(Reconstruct(fftshift(kspace))))
        /\ SameMagnitudes(difference.subtrahend,
                          absolute(Reconstruct(fftshift(InterferenceSpectrum))))

====
